---------------------------- MODULE Spec2Model ----------------------------
(***************************************************************************)
(* Model of script.js: the client-side behaviour of the UzairTechGuide     *)
(* page.  The page is a set of DOM elements, the script runs once at load  *)
(* (RunScript) and afterwards reacts to events: clicks, key presses, the   *)
(* firing of the overlay-hide timers and focus changes made by the user.   *)
(* One action models the complete dispatch of one event through every      *)
(* listener the script registered for it.                                  *)
(***************************************************************************)
EXTENDS Integers, Sequences, FiniteSets, TLC

VARIABLES
    cfg,       \* which elements the document holds (fixed by the markup)
    boot,      \* what the top-level script run has done so far
    nav,       \* the panel controller's DOM state and lastFocusedBeforeNav
    th,        \* the theme manager's DOM state (body classes, toggle text)
    storage,   \* localStorage[THEME_KEY]
    ev,        \* record of the last event dispatched (observation only)
    hist,      \* observation only: focus at open time, initial mode, click parity
    page,      \* the rest of the markup and the browser (fixed): hamburger
               \* bars, reveal elements, hero, IntersectionObserver support
    hb,        \* the hamburger button's fallback class and inline displays
    rv,        \* per reveal element: its classes and whether it is observed
    rz,        \* viewport height, hero override and the debounce closure
    clk        \* ages of the pending overlay-hide timers, in milliseconds

vars == <<cfg, boot, nav, th, storage, ev, hist, page, hb, rv, rz, clk>>

\* Pending overlay-hide timers the model lets accumulate.
MaxTimers == 2

\* Bar spans a hamburger button may hold.
MaxBars == 3

\* Entries one intersection notification may carry.
MaxBatch == 2

\* Debounce timers the model lets be pending at once.
MaxPending == 2

\* Milliseconds one step of the clock advances.
TickMs == 20

\* JavaScript null, and an attribute the markup did not set.
Null == "<null>"
Unset == "<unset>"

\* Elements that can hold keyboard focus in the model.
Elements == {"body", "hamburger", "firstLink"}

(***************************************************************************)
(* Element references (script.js 19-23).  cfg.x is TRUE iff $(selector)    *)
(* found the element; a FALSE field is a null reference.  flakyStorage     *)
(* describes the browser: TRUE when localStorage may throw on any access   *)
(* (storage disabled, quota exceeded).                                     *)
(***************************************************************************)
Configs ==
    [hamburger : BOOLEAN, sideNav : BOOLEAN, sideClose : BOOLEAN,
     overlay : BOOLEAN, themeToggle : BOOLEAN, firstLink : BOOLEAN,
     flakyStorage : BOOLEAN]

\* script.js 26: the condition of the missing-element warning.
MissingCore(c) ==
    ~c.hamburger \/ ~c.sideNav \/ ~c.overlay \/ ~c.themeToggle

(***************************************************************************)
(* openSide (script.js 59-75) as its sequence of statements.  A statement  *)
(* throws when the reference it dereferences is null, or when the fault    *)
(* input f names it (a DOM call that fails by itself).  The statements     *)
(* before a throw keep their effect.                                       *)
(***************************************************************************)
\* Fault inputs: the statement that throws by itself, 0 for none.
OpenFaults == 0 .. 8
CloseFaults == 0 .. 7

OpenStepThrows(k, c, ovRef) ==
    \/ k \in {2, 7, 8} /\ ~c.sideNav
    \/ k \in {3, 6} /\ ~c.hamburger
    \/ k \in {4, 5} /\ ovRef = Null

\* classList.toggle in place of classList.add on the panel.
OpenStepApply_toggle(k, n, c) ==
    CASE k = 1 -> [n EXCEPT !.lastFocused = n.active]
      [] k = 2 -> [n EXCEPT !.sideOpen = ~@]
      [] k = 3 -> [n EXCEPT !.hamOpen = TRUE]
      [] k = 4 -> [n EXCEPT !.ovShow = TRUE]
      [] k = 5 -> [n EXCEPT !.ovHidden = FALSE]
      [] k = 6 -> [n EXCEPT !.ariaExpanded = "true"]
      [] k = 7 -> [n EXCEPT !.ariaHidden = "false"]
      [] k = 8 -> IF c.firstLink THEN [n EXCEPT !.active = "firstLink"] ELSE n

\* An openSide that leaves aria-expanded alone.
OpenStepApply_noaria(k, n, c) ==
    CASE k = 1 -> [n EXCEPT !.lastFocused = n.active]
      [] k = 2 -> [n EXCEPT !.sideOpen = TRUE]
      [] k = 3 -> [n EXCEPT !.hamOpen = TRUE]
      [] k = 4 -> [n EXCEPT !.ovShow = TRUE]
      [] k = 5 -> [n EXCEPT !.ovHidden = FALSE]
      [] k = 6 -> n
      [] k = 7 -> [n EXCEPT !.ariaHidden = "false"]
      [] k = 8 -> IF c.firstLink THEN [n EXCEPT !.active = "firstLink"] ELSE n

OpenStepApply(k, n, c) ==
    CASE k = 1 -> [n EXCEPT !.lastFocused = n.active]
      [] k = 2 -> [n EXCEPT !.sideOpen = TRUE]
      [] k = 3 -> [n EXCEPT !.hamOpen = TRUE]
      [] k = 4 -> [n EXCEPT !.ovShow = TRUE]
      [] k = 5 -> [n EXCEPT !.ovHidden = FALSE]
      [] k = 6 -> [n EXCEPT !.ariaExpanded = "true"]
      [] k = 7 -> [n EXCEPT !.ariaHidden = "false"]
      [] k = 8 -> IF c.firstLink THEN [n EXCEPT !.active = "firstLink"] ELSE n

RECURSIVE OpenFrom(_, _, _, _, _)
OpenFrom(k, n, c, ovRef, f) ==
    IF k > 8 THEN [nav |-> n, threw |-> FALSE]
    ELSE IF f = k \/ OpenStepThrows(k, c, ovRef) THEN [nav |-> n, threw |-> TRUE]
    ELSE OpenFrom(k + 1, OpenStepApply(k, n, c), c, ovRef, f)

\* try { body } catch (err) { console.error(...) }: the throw is logged and
\* does not leave the function.
TryCatchLog(r) == [nav |-> r.nav, logged |-> r.threw, escaped |-> FALSE]

\* The same body without its fault boundary.
NoTryCatch(r) == [nav |-> r.nav, logged |-> FALSE, escaped |-> r.threw]

openSide_unguarded(n, c, ovRef, f) == NoTryCatch(OpenFrom(1, n, c, ovRef, f))

openSide(n, c, ovRef, f) == TryCatchLog(OpenFrom(1, n, c, ovRef, f))

(***************************************************************************)
(* closeSide (script.js 77-94).  ok tells whether the focus() call of line *)
(* 88 takes effect; when it does not (it threw, or the element can no      *)
(* longer take focus) the inner try swallows it.                           *)
(***************************************************************************)
CloseStepThrows(k, c, ovRef) ==
    \/ k \in {1, 6} /\ ~c.sideNav
    \/ k \in {2, 5} /\ ~c.hamburger
    \/ k = 3 /\ ovRef = Null

\* A closeSide that restores focus and keeps the reference.
CloseStepApply_keepref(k, n, ok) ==
    CASE k = 1 -> [n EXCEPT !.sideOpen = FALSE]
      [] k = 2 -> [n EXCEPT !.hamOpen = FALSE]
      [] k = 3 -> [n EXCEPT !.ovShow = FALSE]
      [] k = 4 -> [n EXCEPT !.timers = @ + 1]
      [] k = 5 -> [n EXCEPT !.ariaExpanded = "false"]
      [] k = 6 -> [n EXCEPT !.ariaHidden = "true"]
      [] k = 7 -> IF n.lastFocused # Null
                  THEN [n EXCEPT !.active = IF ok THEN n.lastFocused ELSE @,
                                 !.focusCall = n.lastFocused]
                  ELSE n

\* A closeSide that hides the overlay at once.
CloseStepApply_hidenow(k, n, ok) ==
    CASE k = 1 -> [n EXCEPT !.sideOpen = FALSE]
      [] k = 2 -> [n EXCEPT !.hamOpen = FALSE]
      [] k = 3 -> [n EXCEPT !.ovShow = FALSE, !.ovHidden = TRUE]
      [] k = 4 -> [n EXCEPT !.timers = @ + 1]
      [] k = 5 -> [n EXCEPT !.ariaExpanded = "false"]
      [] k = 6 -> [n EXCEPT !.ariaHidden = "true"]
      [] k = 7 -> IF n.lastFocused # Null
                  THEN [n EXCEPT !.active = IF ok THEN n.lastFocused ELSE @,
                                 !.focusCall = n.lastFocused,
                                 !.lastFocused = Null]
                  ELSE n

CloseStepApply(k, n, ok) ==
    CASE k = 1 -> [n EXCEPT !.sideOpen = FALSE]
      [] k = 2 -> [n EXCEPT !.hamOpen = FALSE]
      [] k = 3 -> [n EXCEPT !.ovShow = FALSE]
      [] k = 4 -> [n EXCEPT !.timers = @ + 1]
      [] k = 5 -> [n EXCEPT !.ariaExpanded = "false"]
      [] k = 6 -> [n EXCEPT !.ariaHidden = "true"]
      [] k = 7 -> IF n.lastFocused # Null
                  THEN [n EXCEPT !.active = IF ok THEN n.lastFocused ELSE @,
                                 !.focusCall = n.lastFocused,
                                 !.lastFocused = Null]
                  ELSE n

RECURSIVE CloseFrom(_, _, _, _, _, _)
CloseFrom(k, n, c, ovRef, f, ok) ==
    IF k > 7 THEN [nav |-> n, threw |-> FALSE]
    ELSE IF f = k \/ CloseStepThrows(k, c, ovRef) THEN [nav |-> n, threw |-> TRUE]
    ELSE CloseFrom(k + 1, CloseStepApply(k, n, ok), c, ovRef, f, ok)

closeSide_unguarded(n, c, ovRef, f, ok) ==
    NoTryCatch(CloseFrom(1, n, c, ovRef, f, ok))

closeSide(n, c, ovRef, f, ok) == TryCatchLog(CloseFrom(1, n, c, ovRef, f, ok))

(***************************************************************************)
(* Theme manager (script.js 168-200).  th.light / th.dark are the body's   *)
(* marker classes, th.glyph and th.title the toggle's textContent and      *)
(* title.  storage is localStorage[THEME_KEY]: Null when the key is        *)
(* absent, otherwise the stored string.                                    *)
(***************************************************************************)
StoredValues == {Null, "light", "dark", "auto", ""}

\* What the OS reports: "none" stands for no matchMedia or no preference.
OsPrefs == {"light", "dark", "none"}

\* A setTheme that forgets to remove the other marker.
SetBodyClass_addonly(t, mode) ==
    IF mode = "light" THEN [t EXCEPT !.light = TRUE] ELSE [t EXCEPT !.dark = TRUE]

\* setTheme, lines 170-172 and 176-177: the body's classes.
SetBodyClass(t, mode) ==
    IF mode = "light"
    THEN [t EXCEPT !.light = TRUE, !.dark = FALSE]
    ELSE [t EXCEPT !.light = FALSE, !.dark = TRUE]

\* setTheme, lines 173-174 and 178-179: the toggle's glyph and title.
SetToggleText(t, mode) ==
    IF mode = "light"
    THEN [t EXCEPT !.glyph = "sun", !.title = "Switch to dark"]
    ELSE [t EXCEPT !.glyph = "moon", !.title = "Switch to light"]

\* setTheme (script.js 169-182).  The body classes are set first; the
\* toggle's text next, which throws a TypeError when themeToggle is null
\* (nothing catches it inside setTheme); the write to storage last, inside
\* its own try: wfail tells whether setItem throws.
setTheme(mode, t, st, c, wfail) ==
    LET t1 == SetBodyClass(t, mode) IN
    IF ~c.themeToggle
    THEN [th |-> t1, storage |-> st, threw |-> TRUE, write |-> "none"]
    ELSE [th |-> SetToggleText(t1, mode),
          storage |-> IF wfail THEN st ELSE mode,
          threw |-> FALSE,
          write |-> IF wfail THEN "failed" ELSE "ok"]

\* An initialisation that asks the OS first.
ResolveTheme_osfirst(st, os, rfail) ==
    IF os = "light" THEN "light"
    ELSE IF rfail \/ st \in {Null, ""} THEN "dark" ELSE st

\* initTheme, lines 186-191: the mode initialisation resolves.  rfail tells
\* whether getItem throws; !saved is true of null and of the empty string.
ResolveTheme(st, os, rfail) ==
    LET saved == IF rfail THEN Null ELSE st IN
    IF saved \in {Null, ""}
    THEN (IF os = "light" THEN "light" ELSE "dark")
    ELSE saved

\* initTheme (script.js 185-193).
initTheme(t, st, c, os, rfail, wfail) ==
    setTheme(ResolveTheme(st, os, rfail), t, st, c, wfail)

\* The mode the body shows, as the toggle's listener reads it (line 197).
CurrentMode(t) == IF t.light THEN "light" ELSE "dark"

(***************************************************************************)
(* Hamburger fallback detection (script.js 122-161).  The markup of the    *)
(* button is m: the number of bar spans (spans without the fallback        *)
(* class), whether the fallback glyph element is there, the rendered size  *)
(* of the first bar, and whether measuring it throws.  h is what the       *)
(* detection leaves on the button: the 'use-fallback' class and the inline *)
(* display of the glyph and of the bars (Unset: no inline style, the       *)
(* stylesheet decides).                                                    *)
(***************************************************************************)
BarWidths == {0, 5, 6, 20}
BarHeights == {0, 1, 2, 3}

HamMarkups ==
    [bars : 0 .. MaxBars, fb : BOOLEAN, width : BarWidths, height : BarHeights,
     measureThrows : BOOLEAN, useFallback : BOOLEAN]

\* The button as the markup gives it.
HamInit(m) == [useFallback |-> m.useFallback, glyph |-> Unset, bars |-> Unset]

\* A size test that looks at the width alone.
BarTooSmall_widthonly(m) == m.width < 6

\* Line 133: the first bar has a negligible size.
BarTooSmall(m) == m.width < 6 \/ m.height < 2

\* Lines 138-143 and 154-158: class added, glyph shown, bars hidden.
UseFallback(h, m) ==
    [h EXCEPT !.useFallback = TRUE,
              !.glyph = IF m.fb THEN "block" ELSE @,
              !.bars = IF m.bars > 0 THEN "none" ELSE @]

\* Lines 146-149: class removed, glyph hidden, bars shown.
UseBars(h, m) ==
    [h EXCEPT !.useFallback = FALSE,
              !.glyph = IF m.fb THEN "none" ELSE @,
              !.bars = IF m.bars > 0 THEN "block" ELSE @]

\* The try block (lines 124-150).  verdict is needFallback as computed,
\* "thrown" when measuring threw before it was; threw tells whether the
\* block ended in a throw (measuring, or classList of a null hamburger).
FallbackTry(h, c, m) ==
    LET nb == IF c.hamburger THEN m.bars ELSE 0 IN
    IF nb > 0 /\ m.measureThrows
    THEN [hb |-> h, verdict |-> "thrown", threw |-> TRUE]
    ELSE IF nb = 0 \/ BarTooSmall(m)
    THEN IF c.hamburger
         THEN [hb |-> UseFallback(h, m), verdict |-> "broken", threw |-> FALSE]
         ELSE [hb |-> h, verdict |-> "broken", threw |-> TRUE]
    ELSE [hb |-> UseBars(h, m), verdict |-> "healthy", threw |-> FALSE]

\* The body of the catch branch (lines 154-158).
FallbackCatch(h, c, m) ==
    IF c.hamburger
    THEN [hb |-> UseFallback(h, m), threw |-> FALSE]
    ELSE [hb |-> h, threw |-> TRUE]

\* hamburgerFallbackCheck (script.js 122-161): the try block, on a throw
\* the catch branch, whose own try swallows whatever it throws.
hamburgerFallbackCheck(h, c, m) ==
    LET r == FallbackTry(h, c, m)
        k == FallbackCatch(r.hb, c, m)
    IN IF r.threw
       THEN [hb |-> k.hb, verdict |-> r.verdict, escaped |-> FALSE]
       ELSE [hb |-> r.hb, verdict |-> r.verdict, escaped |-> FALSE]

(***************************************************************************)
(* Reveal-on-scroll (script.js 221-242).  The document holds the elements  *)
(* RevealEls; the markup gives each a kind: "plain" matches none of the    *)
(* selectors, "reveal" carries the 'reveal' class already, "tile" matches  *)
(* another selector and does not.  r maps each element to its classes and  *)
(* to whether the observer watches it.                                     *)
(***************************************************************************)
RevealEls == {"e1", "e2", "e3"}
RevealKinds == {"plain", "reveal", "tile"}

\* document.querySelectorAll(selector), line 224.
Matched(k) == {e \in RevealEls : k[e] # "plain"}

\* The elements as the markup gives them; seen and adds are observation
\* only: whether a notification has reported the element intersecting, and
\* how many times the 'show' class went from absent to present.
RevealInit(k) ==
    [e \in RevealEls |->
        [reveal |-> k[e] = "reveal", show |-> FALSE, observed |-> FALSE,
         seen |-> FALSE, adds |-> 0]]

\* setupReveal (script.js 221-242).  io tells whether the browser has
\* IntersectionObserver; without it the constructor throws after the
\* classes were added, and the catch logs a warning.
setupReveal(r, k, io) ==
    LET els == Matched(k)
        r1 == [e \in RevealEls |->
                 IF e \in els THEN [r[e] EXCEPT !.reveal = TRUE] ELSE r[e]]
    IN IF els = {} THEN [rv |-> r, warned |-> FALSE]
       ELSE IF ~io THEN [rv |-> r1, warned |-> TRUE]
       ELSE [rv |-> [e \in RevealEls |->
                       IF e \in els THEN [r1[e] EXCEPT !.observed = TRUE]
                       ELSE r1[e]],
             warned |-> FALSE]

\* An entry of a notification: the target and entry.isIntersecting.
Entries == [target : RevealEls, isIntersecting : BOOLEAN]

\* A callback that shows the element and keeps observing it.
RevealEntry_keepobserving(r, en) ==
    IF en.isIntersecting
    THEN [r EXCEPT ![en.target].show = TRUE]
    ELSE r

\* The observer callback on one entry (lines 231-234).
RevealEntry(r, en) ==
    IF en.isIntersecting
    THEN [r EXCEPT ![en.target].show = TRUE, ![en.target].observed = FALSE]
    ELSE r

\* entries.forEach (line 230).
RECURSIVE RevealEntries(_, _)
RevealEntries(r, es) ==
    IF es = <<>> THEN r ELSE RevealEntries(RevealEntry(r, Head(es)), Tail(es))

(***************************************************************************)
(* Viewport height adjuster and its debounce (script.js 247-265).  z is    *)
(* the record rz: height is window.innerHeight, override whether the hero  *)
(* carries the inline min-height, pending the remaining milliseconds of    *)
(* the debounce timers not yet fired or cleared (oldest first), tLive      *)
(* whether the closure's t names the newest of them, last the closure's    *)
(* last as the time elapsed since that instant (<<>> for null).  waiting,  *)
(* runs and resized are observation only: the time since the first resize  *)
(* event no execution has followed, the executions of the wrapped function *)
(* in the last step, and whether a resize event has ever arrived.          *)
(***************************************************************************)
ResizeWait == 120
ResizeMaxWait == 300
SmallViewport == 500

Heights == {300, 499, 500, 501}

Front(q) == SubSeq(q, 1, Len(q) - 1)

\* An adjuster that also shrinks the hero at the threshold itself.
adjustHeroForViewport_inclusive(z, hero) ==
    IF ~hero THEN z
    ELSE [z EXCEPT !.override = (z.height <= SmallViewport)]

\* adjustHeroForViewport (script.js 247-254).
adjustHeroForViewport(z, hero) ==
    IF ~hero THEN z
    ELSE [z EXCEPT !.override = (z.height < SmallViewport)]

\* fn.apply(this, args); last = null (lines 262 and 263).
RunWrapped(z, hero) ==
    [adjustHeroForViewport(z, hero) EXCEPT
        !.last = <<>>, !.waiting = <<>>, !.runs = @ + 1]

\* clearTimeout(t): removes the timer t names when it is still pending.
ClearTimer(z) ==
    IF z.tLive THEN [z EXCEPT !.pending = Front(@), !.tLive = FALSE] ELSE z

\* t = setTimeout(..., wait).
ArmTimer(z) == [z EXCEPT !.pending = Append(@, ResizeWait), !.tLive = TRUE]

\* A wrapper that arms a new timer without clearing the previous one.
debounced_noclear(z, hero) ==
    LET z1 == [z EXCEPT !.last = IF @ = <<>> THEN <<0>> ELSE @,
                        !.waiting = IF @ = <<>> THEN <<0>> ELSE @]
        z2 == ArmTimer(z1)
    IN IF z2.last[1] >= ResizeMaxWait
       THEN RunWrapped(ClearTimer(z2), hero)
       ELSE z2

\* The function debounce returns (lines 258-264), called on a resize event.
debounced(z, hero) ==
    LET z1 == [z EXCEPT !.last = IF @ = <<>> THEN <<0>> ELSE @,
                        !.waiting = IF @ = <<>> THEN <<0>> ELSE @]
        z2 == ArmTimer(ClearTimer(z1))
    IN IF z2.last[1] >= ResizeMaxWait
       THEN RunWrapped(ClearTimer(z2), hero)
       ELSE z2

\* The timer callback of line 262, for the oldest pending timer.
debounceTimeout(z, hero) ==
    RunWrapped([z EXCEPT !.pending = Tail(@),
                         !.tLive = IF Len(z.pending) = 1 THEN FALSE ELSE @],
               hero)

\* debounce (line 256-257): the closure as created, and the page before
\* any resize event.
ResizeInit(h, o) ==
    [height |-> h, override |-> o, pending |-> <<>>, tLive |-> FALSE,
     last |-> <<>>, waiting |-> <<>>, runs |-> 0, resized |-> FALSE]

(***************************************************************************)
(* Time.  clk holds, oldest first, the age in milliseconds of each pending *)
(* overlay-hide timer (script.js 82); a timer is due at the age HideDelay. *)
(* The clock advances in steps of at most TickMs and never past the        *)
(* instant a pending timer is due.                                         *)
(***************************************************************************)
HideDelay == 220

Min(a, b) == IF a < b THEN a ELSE b

RECURSIVE SeqMin(_, _)
SeqMin(q, m) == IF q = <<>> THEN m ELSE SeqMin(Tail(q), Min(Head(q), m))

\* Milliseconds until the next pending timer is due, at most TickMs.
NextStep(z, c) ==
    SeqMin(z.pending, SeqMin([i \in 1 .. Len(c) |-> HideDelay - c[i]], TickMs))

\* The state of the timers d milliseconds later.
Elapse(q, d) == [i \in 1 .. Len(q) |-> q[i] + d]

(***************************************************************************)
(* The top-level run of the script (script.js 19-280), in source order.    *)
(* A throw that nothing catches ends the run: the statements after it are  *)
(* never executed, the listeners registered before it stay registered.     *)
(***************************************************************************)
\* Listeners registered before initTheme runs (lines 97-115).
EarlyListeners(c, ovRef) ==
    (IF c.hamburger THEN {"hamburger"} ELSE {})
    \cup (IF c.sideClose THEN {"sideClose"} ELSE {})
    \cup (IF ovRef # Null THEN {"overlay"} ELSE {})
    \cup {"docClick", "keydown"}

\* Listeners and observers set up after initTheme (lines 195-255).
LateListeners(c) ==
    (IF c.themeToggle THEN {"theme"} ELSE {})
    \cup {"smoothScroll", "reveal", "resize"}

\* ensureOverlay (script.js 34-47): the number of #page-overlay elements
\* and the module's reference after it ran.
\* An ensureOverlay that appends the element and keeps the null reference.
ensureOverlay_noassign(c) ==
    IF c.overlay
    THEN [overlays |-> 1, ref |-> "markup"]
    ELSE [overlays |-> 1, ref |-> Null]

ensureOverlay(c) ==
    IF c.overlay
    THEN [overlays |-> 1, ref |-> "markup"]
    ELSE [overlays |-> 1, ref |-> "created"]

\* Lines 39-40: an overlay the script creates carries the class 'overlay'
\* alone and is hidden.
CreatedOverlay(n) == [n EXCEPT !.ovShow = FALSE, !.ovHidden = TRUE]

\* ensureOverlayAgain (script.js 270-280): creates an element only when
\* getElementById finds none.
ensureOverlayAgain(overlays) == IF overlays = 0 THEN 1 ELSE overlays

(***************************************************************************)
(* Event dispatch.  A context x carries the DOM state through the          *)
(* listeners of one event together with what the dispatch did: the calls   *)
(* of openSide and closeSide, faults no listener caught, preventDefault,   *)
(* scrollIntoView, stopPropagation.                                        *)
(***************************************************************************)
Targets ==
    {"hamburger", "sideClose", "overlay", "themeToggle",
     "navLink", "pageLink", "panel", "page"}

\* Fragments of an in-page anchor: bare "#", a fragment no element carries,
\* a fragment an element carries, and a fragment that is no valid CSS
\* selector (an identifier starting with a digit), for which
\* document.querySelector throws a SyntaxError.
Hrefs == {"#", "#missing", "#target", "#1bad"}
NoHref == "-"

Keys == {"Escape", "Enter"}

\* sideNav.contains(e.target): the close button and the links are inside.
InPanel(t) == t \in {"sideClose", "navLink", "panel"}

\* e.target.closest('a[href^="#"]') finds an anchor.
IsAnchor(t) == t \in {"navLink", "pageLink"}

StartCtx(n, t, st) ==
    [nav |-> [n EXCEPT !.focusCall = Null], th |-> t, storage |-> st,
     opens |-> 0, closes |-> 0, logged |-> FALSE, escaped |-> FALSE,
     fault |-> FALSE, prevented |-> FALSE, scrolled |-> FALSE,
     ssClose |-> FALSE, stopped |-> FALSE, write |-> "none"]

Throw(x) == [x EXCEPT !.fault = TRUE]

CallOpen(x, c, ovRef) ==
    LET r == openSide(x.nav, c, ovRef, 0) IN
    [x EXCEPT !.nav = r.nav, !.opens = @ + 1, !.logged = @ \/ r.logged,
              !.escaped = @ \/ r.escaped, !.fault = @ \/ r.escaped]

CallClose(x, c, ovRef, ok) ==
    LET r == closeSide(x.nav, c, ovRef, 0, ok) IN
    [x EXCEPT !.nav = r.nav, !.closes = @ + 1, !.logged = @ \/ r.logged,
              !.escaped = @ \/ r.escaped, !.fault = @ \/ r.escaped]

\* A hamburger listener that opens without looking at the panel.
hamburgerClick_openonly(x, c, ovRef, ok) ==
    LET x1 == [x EXCEPT !.stopped = TRUE] IN
    IF ~c.sideNav THEN Throw(x1) ELSE CallOpen(x1, c, ovRef)

\* The hamburger's click listener (script.js 98-102).
hamburgerClick(x, c, ovRef, ok) ==
    LET x1 == [x EXCEPT !.stopped = TRUE] IN
    IF ~c.sideNav THEN Throw(x1)
    ELSE IF x1.nav.sideOpen THEN CallClose(x1, c, ovRef, ok)
    ELSE CallOpen(x1, c, ovRef)

\* The document's outside-click listener (script.js 108-112).
outsideClick(x, t, c, ovRef, ok) ==
    IF ~c.sideNav THEN Throw(x)
    ELSE IF InPanel(t) THEN x
    ELSE IF ~c.hamburger THEN Throw(x)
    ELSE IF t = "hamburger" THEN x
    ELSE IF x.nav.sideOpen THEN CallClose(x, c, ovRef, ok)
    ELSE x

\* The document's keydown listener (script.js 113-115).
keydownListener(x, k, c, ovRef, ok) ==
    IF k # "Escape" THEN x
    ELSE IF ~c.sideNav THEN Throw(x)
    ELSE IF x.nav.sideOpen THEN CallClose(x, c, ovRef, ok)
    ELSE x

\* A toggle listener that takes the current mode from storage.
themeClick_fromStorage(x, c, wfail) ==
    LET r == setTheme(IF x.storage = "light" THEN "dark" ELSE "light",
                      x.th, x.storage, c, wfail)
    IN [x EXCEPT !.th = r.th, !.storage = r.storage, !.write = r.write,
                 !.fault = @ \/ r.threw]

\* The theme toggle's click listener (script.js 196-199).
themeClick(x, c, wfail) ==
    LET current == CurrentMode(x.th)
        r == setTheme(IF current = "light" THEN "dark" ELSE "light",
                      x.th, x.storage, c, wfail)
    IN [x EXCEPT !.th = r.th, !.storage = r.storage, !.write = r.write,
                 !.fault = @ \/ r.threw]

\* A smooth-scroll listener that closes without looking at the panel.
smoothScroll_alwaysClose(x, t, h, c, ovRef, ok) ==
    IF ~IsAnchor(t) THEN x
    ELSE IF h = "#" THEN x
    ELSE IF h = "#1bad" THEN Throw(x)
    ELSE IF h = "#missing" THEN x
    ELSE LET x1 == [x EXCEPT !.prevented = TRUE, !.scrolled = TRUE] IN
         [CallClose(x1, c, ovRef, ok) EXCEPT !.ssClose = TRUE]

\* The smooth-scroll click listener (script.js 205-215).
smoothScroll(x, t, h, c, ovRef, ok) ==
    IF ~IsAnchor(t) THEN x
    ELSE IF h = "#" THEN x
    ELSE IF h = "#1bad" THEN Throw(x)
    ELSE IF h = "#missing" THEN x
    ELSE LET x1 == [x EXCEPT !.prevented = TRUE, !.scrolled = TRUE] IN
         IF ~c.sideNav THEN Throw(x1)
         ELSE IF x1.nav.sideOpen
              THEN [CallClose(x1, c, ovRef, ok) EXCEPT !.ssClose = TRUE]
              ELSE x1

\* The listener on the element clicked, when the script registered one.
ElementListener(x, t, c, b, ok, wfail) ==
    CASE t = "hamburger" /\ "hamburger" \in b.installed ->
             hamburgerClick(x, c, b.overlayRef, ok)
      [] t = "sideClose" /\ "sideClose" \in b.installed ->
             CallClose(x, c, b.overlayRef, ok)
      [] t = "overlay" /\ "overlay" \in b.installed ->
             CallClose(x, c, b.overlayRef, ok)
      [] t = "themeToggle" /\ "theme" \in b.installed ->
             themeClick(x, c, wfail)
      [] OTHER -> x

\* One click through its listeners: the element's own, then, unless
\* propagation was stopped, the document's two in registration order.  A
\* listener that throws does not keep the later ones from running.
DispatchClick(x, t, h, c, b, ok, wfail) ==
    LET x1 == ElementListener(x, t, c, b, ok, wfail)
        x2 == IF ~x1.stopped /\ "docClick" \in b.installed
              THEN outsideClick(x1, t, c, b.overlayRef, ok) ELSE x1
        x3 == IF ~x2.stopped /\ "smoothScroll" \in b.installed
              THEN smoothScroll(x2, t, h, c, b.overlayRef, ok) ELSE x2
    IN x3

\* The element a click names exists in the document.
TargetExists(t, c, b) ==
    CASE t = "hamburger" -> c.hamburger
      [] t = "sideClose" -> c.sideClose
      [] t = "overlay" -> b.overlays > 0
      [] t = "themeToggle" -> c.themeToggle
      [] t \in {"navLink", "panel"} -> c.sideNav
      [] OTHER -> TRUE

(***************************************************************************)
(* State before the script runs: the document as the markup gives it.      *)
(* The panel is closed, the overlay (when the markup has one) is hidden,   *)
(* the aria attributes are either absent or say "closed", the body may     *)
(* carry any marker classes, storage may hold anything.  The close button  *)
(* and the first link are part of the panel's markup: the close button is  *)
(* there iff the panel is, the link only if the panel is.                  *)
(***************************************************************************)
NoEvent ==
    [kind |-> "none", target |-> NoHref, href |-> NoHref, wasOpen |-> FALSE,
     preFocus |-> Null, opens |-> 0, closes |-> 0, logged |-> FALSE,
     escaped |-> FALSE, fault |-> FALSE, prevented |-> FALSE,
     scrolled |-> FALSE, ssClose |-> FALSE, write |-> "none",
     os |-> NoHref, saved |-> NoHref, readFail |-> FALSE, timersAdded |-> 0,
     focusOk |-> TRUE, verdict |-> NoHref, wasHidden |-> FALSE]

\* Markup in which the panel's parts come with the panel.
PanelMarkup(c) == (c.sideClose = c.sideNav) /\ (c.firstLink => c.sideNav)

\* Every combination of missing elements, in a browser whose storage works.
PageConfigs == {c \in Configs : PanelMarkup(c) /\ ~c.flakyStorage}

\* Every storage behaviour, on a page that has its panel.
AllCore(c) == c.hamburger /\ c.sideNav /\ c.overlay /\ c.sideClose /\ c.firstLink
StorageConfigs == {c \in Configs : AllCore(c)}

InitPage(configs, stores) ==
    /\ cfg \in configs
    /\ boot = [phase |-> "loading", warned |-> FALSE, installed |-> {},
               overlayRef |-> IF cfg.overlay THEN "markup" ELSE Null,
               overlays |-> IF cfg.overlay THEN 1 ELSE 0]
    /\ \E aria \in BOOLEAN :
         nav = [sideOpen |-> FALSE, hamOpen |-> FALSE, ovShow |-> FALSE,
                ovHidden |-> cfg.overlay,
                ariaExpanded |-> IF aria /\ cfg.hamburger THEN "false" ELSE Unset,
                ariaHidden |-> IF aria /\ cfg.sideNav THEN "true" ELSE Unset,
                lastFocused |-> Null, active |-> "body", timers |-> 0,
                focusCall |-> Null]
    /\ \E l \in BOOLEAN, d \in BOOLEAN :
         th = [light |-> l, dark |-> d, glyph |-> Unset, title |-> Unset]
    /\ storage \in stores
    /\ ev = NoEvent
    /\ hist = [preOpenFocus |-> Null, initMode |-> Null, parity |-> 0]

\* The usual markup: three healthy bars and the glyph in the hamburger, one
\* element of each reveal kind, a hero section, IntersectionObserver there.
NoHam ==
    [bars |-> 0, fb |-> FALSE, width |-> 0, height |-> 0,
     measureThrows |-> FALSE, useFallback |-> FALSE]
StdHam ==
    [bars |-> 3, fb |-> TRUE, width |-> 20, height |-> 2,
     measureThrows |-> FALSE, useFallback |-> FALSE]
StdKinds == [e \in RevealEls |->
               IF e = "e1" THEN "reveal" ELSE IF e = "e2" THEN "tile" ELSE "plain"]
StdPage(c) ==
    [ham |-> IF c.hamburger THEN StdHam ELSE NoHam, kinds |-> StdKinds,
     io |-> TRUE, hero |-> TRUE]

\* A page without the hamburger has none of its parts; without bars there
\* is nothing to measure.
HamFits(c, m) ==
    /\ ~c.hamburger => m = NoHam
    /\ m.bars = 0 => (m.width = 0 /\ m.height = 0 /\ ~m.measureThrows)

\* The rest of the document before the script runs: nothing observed, no
\* debounce timer, no overlay-hide timer.
InitMarkup(pages, heights, overrides) ==
    /\ page \in pages
    /\ HamFits(cfg, page.ham)
    /\ hb = HamInit(page.ham)
    /\ rv = RevealInit(page.kinds)
    /\ \E h \in heights, o \in overrides : rz = ResizeInit(h, o)
    /\ clk = <<>>

Init ==
    /\ InitPage(PageConfigs, StoredValues)
    /\ InitMarkup({StdPage(cfg)}, {501}, {FALSE})

InitStorage ==
    /\ InitPage(StorageConfigs, StoredValues)
    /\ InitMarkup({StdPage(cfg)}, {501}, {FALSE})

(***************************************************************************)
(* RunScript: the whole top-level run (script.js 19-280).  os is the OS    *)
(* colour-scheme preference, rfail / wfail whether storage throws on the   *)
(* read and on the write.  hamburgerFallbackCheck (122-161) runs before    *)
(* initTheme; setupReveal (221-242), the registration of the debounced     *)
(* resize listener (255) and ensureOverlayAgain (270-280) after it, so     *)
(* only when initTheme did not throw.                                      *)
(***************************************************************************)
RunScript(os, rfail, wfail) ==
    /\ boot.phase = "loading"
    /\ (rfail \/ wfail) => cfg.flakyStorage
    /\ LET o == ensureOverlay(cfg)
           f == hamburgerFallbackCheck(hb, cfg, page.ham)
           r == initTheme(th, storage, cfg, os, rfail, wfail)
       IN /\ boot' = IF r.threw
                     THEN [phase |-> "aborted", warned |-> MissingCore(cfg),
                           installed |-> EarlyListeners(cfg, o.ref),
                           overlayRef |-> o.ref, overlays |-> o.overlays]
                     ELSE [phase |-> "done", warned |-> MissingCore(cfg),
                           installed |-> EarlyListeners(cfg, o.ref)
                                             \cup LateListeners(cfg),
                           overlayRef |-> o.ref,
                           overlays |-> ensureOverlayAgain(o.overlays)]
          /\ th' = r.th
          /\ storage' = r.storage
          /\ ev' = [NoEvent EXCEPT !.kind = "load", !.os = os,
                                   !.saved = storage, !.readFail = rfail,
                                   !.write = r.write,
                                   !.fault = r.threw \/ f.escaped,
                                   !.verdict = f.verdict]
          /\ hist' = [hist EXCEPT !.initMode = CurrentMode(r.th)]
          /\ nav' = IF o.ref = "created" THEN CreatedOverlay(nav) ELSE nav
          /\ hb' = f.hb
          /\ rv' = IF r.threw THEN rv
                   ELSE setupReveal(rv, page.kinds, page.io).rv
          /\ rz' = IF r.threw THEN rz
                   ELSE ResizeInit(rz.height, rz.override)
    /\ UNCHANGED <<cfg, page, clk>>

Loaded == boot.phase # "loading"

\* What an event dispatch leaves in ev and hist.
Observe(kind, t, h, ok, x) ==
    /\ ev' = [NoEvent EXCEPT !.kind = kind, !.target = t, !.href = h,
                             !.wasOpen = nav.sideOpen,
                             !.preFocus = IF x.closes > 0 THEN hist.preOpenFocus
                                          ELSE Null,
                             !.opens = x.opens, !.closes = x.closes,
                             !.logged = x.logged, !.escaped = x.escaped,
                             !.fault = x.fault, !.prevented = x.prevented,
                             !.scrolled = x.scrolled, !.ssClose = x.ssClose,
                             !.write = x.write,
                             !.focusOk = (x.nav.focusCall = Null) \/ ok,
                             !.timersAdded = x.nav.timers - nav.timers,
                             !.wasHidden = nav.ovHidden]
    /\ hist' = [hist EXCEPT
                  !.preOpenFocus = IF x.opens > 0 THEN nav.active
                                   ELSE IF x.closes > 0 THEN Null ELSE @,
                  !.parity = IF t = "themeToggle" /\ "theme" \in boot.installed
                             THEN 1 - @ ELSE @]

\* The overlay-hide timers with those armed by the dispatch that led to x:
\* setTimeout (line 82) starts each at age 0.
ArmHideTimers(c, x) ==
    c \o [i \in 1 .. (x.nav.timers - nav.timers) |-> 0]

\* A click on target t (an anchor carries the fragment h).
Click(t, h, ok, wfail) ==
    /\ Loaded
    /\ TargetExists(t, cfg, boot)
    /\ IsAnchor(t) <=> h # NoHref
    /\ wfail => t = "themeToggle" /\ cfg.flakyStorage
    /\ ~ok => nav.lastFocused # Null
    /\ LET x == DispatchClick(StartCtx(nav, th, storage), t, h, cfg, boot,
                              ok, wfail)
       IN /\ x.nav.timers <= MaxTimers
          /\ nav' = x.nav
          /\ th' = x.th
          /\ storage' = x.storage
          /\ Observe("click", t, h, ok, x)
          /\ clk' = ArmHideTimers(clk, x)
    /\ UNCHANGED <<cfg, boot, page, hb, rv, rz>>

\* A key press anywhere in the document.
KeyDown(k, ok) ==
    /\ Loaded
    /\ ~ok => nav.lastFocused # Null
    /\ LET x0 == StartCtx(nav, th, storage)
           x == IF "keydown" \in boot.installed
                THEN keydownListener(x0, k, cfg, boot.overlayRef, ok)
                ELSE x0
       IN /\ x.nav.timers <= MaxTimers
          /\ nav' = x.nav
          /\ Observe("key", k, NoHref, ok, x)
          /\ clk' = ArmHideTimers(clk, x)
    /\ UNCHANGED <<cfg, boot, th, storage, page, hb, rv, rz>>

\* The callback of script.js 82 runs for the oldest pending timer.
HideCallback ==
    /\ nav' = [nav EXCEPT !.timers = @ - 1, !.ovHidden = TRUE,
                          !.focusCall = Null]
    /\ clk' = Tail(clk)
    /\ ev' = [NoEvent EXCEPT !.kind = "timer", !.wasOpen = nav.sideOpen,
                             !.wasHidden = nav.ovHidden]
    /\ UNCHANGED <<cfg, boot, th, storage, hist, page, hb, rv, rz>>

\* One overlay-hide timer fires, with time left out: a pending timer may
\* fire at any moment.
TimerFire ==
    /\ nav.timers > 0
    /\ HideCallback

\* One overlay-hide timer fires, on the clock: when its delay has elapsed.
HideTimerDue ==
    /\ clk # <<>>
    /\ Head(clk) >= HideDelay
    /\ HideCallback

\* Time passes: up to TickMs milliseconds, while a timer is pending and
\* none is due.
Tick ==
    /\ rz.pending # <<>> \/ clk # <<>>
    /\ LET d == NextStep(rz, clk) IN
       /\ d > 0
       /\ rz' = [rz EXCEPT !.pending = Elapse(@, 0 - d),
                           !.last = Elapse(@, d),
                           !.waiting = Elapse(@, d),
                           !.runs = 0]
       /\ clk' = Elapse(clk, d)
    /\ ev' = [NoEvent EXCEPT !.kind = "tick", !.wasOpen = nav.sideOpen,
                             !.wasHidden = nav.ovHidden]
    /\ nav' = [nav EXCEPT !.focusCall = Null]
    /\ UNCHANGED <<cfg, boot, th, storage, hist, page, hb, rv>>

\* A resize event: the viewport is now h high and the debounced listener
\* (line 255) runs.
Resize(h) ==
    /\ "resize" \in boot.installed
    /\ LET z == debounced([rz EXCEPT !.height = h, !.runs = 0,
                                    !.resized = TRUE], page.hero)
       IN /\ Len(z.pending) <= MaxPending
          /\ rz' = z
    /\ ev' = [NoEvent EXCEPT !.kind = "resize"]
    /\ UNCHANGED <<cfg, boot, nav, th, storage, hist, page, hb, rv, clk>>

\* The oldest debounce timer fires when its wait has elapsed (line 262).
DebounceFire ==
    /\ rz.pending # <<>>
    /\ Head(rz.pending) <= 0
    /\ rz' = debounceTimeout([rz EXCEPT !.runs = 0], page.hero)
    /\ ev' = [NoEvent EXCEPT !.kind = "debounce"]
    /\ UNCHANGED <<cfg, boot, nav, th, storage, hist, page, hb, rv, clk>>

\* The observer delivers a notification (the callback of line 229): a
\* batch of entries for elements it was observing.
Notify(es) ==
    /\ "reveal" \in boot.installed
    /\ \A i \in 1 .. Len(es) : rv[es[i].target].observed
    /\ LET r == RevealEntries(rv, es) IN
       rv' = [e \in RevealEls |->
                [r[e] EXCEPT
                   !.seen = @ \/ \E i \in 1 .. Len(es) :
                                   es[i].target = e /\ es[i].isIntersecting,
                   !.adds = IF ~rv[e].show /\ r[e].show THEN @ + 1 ELSE @]]
    /\ ev' = [NoEvent EXCEPT !.kind = "intersect"]
    /\ UNCHANGED <<cfg, boot, nav, th, storage, hist, page, hb, rz, clk>>

\* The user moves keyboard focus to element e.
UserFocus(e) ==
    /\ Loaded
    /\ e # nav.active
    /\ e = "firstLink" => cfg.firstLink
    /\ e = "hamburger" => cfg.hamburger
    /\ nav' = [nav EXCEPT !.active = e, !.focusCall = Null]
    /\ ev' = [NoEvent EXCEPT !.kind = "focus", !.wasOpen = nav.sideOpen]
    /\ UNCHANGED <<cfg, boot, th, storage, hist, page, hb, rv, rz, clk>>

Startup ==
    \E os \in OsPrefs, rfail \in BOOLEAN, wfail \in BOOLEAN :
        RunScript(os, rfail, wfail)

ClickEvent ==
    \E t \in Targets, h \in Hrefs \cup {NoHref}, ok \in BOOLEAN, wfail \in BOOLEAN :
        Click(t, h, ok, wfail)

KeyEvent == \E k \in Keys, ok \in BOOLEAN : KeyDown(k, ok)

FocusEvent == \E e \in Elements : UserFocus(e)

Next == Startup \/ ClickEvent \/ KeyEvent \/ TimerFire \/ FocusEvent

Spec == Init /\ [][Next]_vars

\* The same page over every storage behaviour.
SpecStorage == InitStorage /\ [][Next]_vars

(***************************************************************************)
(* The parts of the page that do not act on one another are explored each  *)
(* in a specification of its own, on a page with every element the script  *)
(* looks up (the fallback check also without the hamburger).               *)
(***************************************************************************)
CompleteConfigs == {c \in PageConfigs : AllCore(c) /\ c.themeToggle}

\* Startup over every hamburger markup.
FallbackConfigs ==
    {c \in PageConfigs : c.sideNav /\ c.firstLink /\ c.overlay /\ c.themeToggle}
FallbackPages ==
    [ham : HamMarkups, kinds : {StdKinds}, io : {TRUE}, hero : {TRUE}]
InitFallback ==
    /\ InitPage(FallbackConfigs, {Null})
    /\ InitMarkup(FallbackPages, {501}, {FALSE})
NextFallback == Startup
SpecFallback == InitFallback /\ [][NextFallback]_vars

\* Intersection notifications over every reveal markup.
RevealPages ==
    [ham : {StdHam}, kinds : [RevealEls -> RevealKinds], io : BOOLEAN,
     hero : {TRUE}]
Batches == UNION {[1 .. n -> Entries] : n \in 1 .. MaxBatch}
InitReveal ==
    /\ InitPage(CompleteConfigs, {Null})
    /\ InitMarkup(RevealPages, {501}, {FALSE})
IntersectionEvent == \E es \in Batches : Notify(es)
NextReveal == Startup \/ IntersectionEvent
SpecReveal == InitReveal /\ [][NextReveal]_vars

\* Resize events on the clock.  Time advances and a due timer fires: the
\* browser's event loop runs every timer whose delay has elapsed.
ResizePages ==
    [ham : {StdHam}, kinds : {StdKinds}, io : {TRUE}, hero : BOOLEAN]
InitResize ==
    /\ InitPage(CompleteConfigs, {Null})
    /\ InitMarkup(ResizePages, Heights, BOOLEAN)
ResizeEvent == \E h \in Heights : Resize(h)
NextResize == Startup \/ ResizeEvent \/ DebounceFire \/ Tick
SpecResize ==
    InitResize /\ [][NextResize]_vars /\ WF_vars(Tick) /\ WF_vars(DebounceFire)

\* The panel's triggers on the clock.
PanelTargets ==
    {"hamburger", "sideClose", "overlay", "page", "navLink", "pageLink"}
InitOverlay ==
    /\ InitPage(CompleteConfigs, {Null})
    /\ InitMarkup({StdPage(cfg)}, {501}, {FALSE})
PanelClick ==
    \E t \in PanelTargets :
        Click(t, IF IsAnchor(t) THEN "#target" ELSE NoHref, TRUE, FALSE)
EscapeKey == KeyDown("Escape", TRUE)
NextOverlay == Startup \/ PanelClick \/ EscapeKey \/ HideTimerDue \/ Tick
SpecOverlay ==
    InitOverlay /\ [][NextOverlay]_vars /\ WF_vars(Tick) /\ WF_vars(HideTimerDue)

(***************************************************************************)
(*                              Properties                                 *)
(***************************************************************************)
\* The four elements the script calls required are in the markup.
AllRequired == ~MissingCore(cfg)

UiEvent == ev.kind \in {"click", "key"}

\* Click targets outside both the panel and the hamburger.
OutsideTargets == {"overlay", "themeToggle", "pageLink", "page"}

\* C1: on a page with all required elements, after the dispatch of a
\* hamburger click the panel's open marker is the negation of what it was;
\* after a click on the close button, on the overlay or anywhere outside
\* the panel and the hamburger the panel is closed; after Escape it is
\* closed; any other key calls neither openSide nor closeSide and leaves
\* the panel as it was.
C1_Triggers ==
    AllRequired =>
      /\ (ev.kind = "click" /\ ev.target = "hamburger")
            => nav.sideOpen = ~ev.wasOpen
      /\ (ev.kind = "click" /\ ev.target \in {"sideClose", "overlay"})
            => ~nav.sideOpen
      /\ (ev.kind = "click" /\ ev.target \in OutsideTargets) => ~nav.sideOpen
      /\ (ev.kind = "key" /\ ev.target = "Escape") => ~nav.sideOpen
      /\ (ev.kind = "key" /\ ev.target # "Escape")
            => (nav.sideOpen = ev.wasOpen /\ ev.opens = 0 /\ ev.closes = 0)

\* A hamburger click has closed a panel that an earlier click had opened.
C1_Witness ==
    /\ AllRequired
    /\ ev.kind = "click" /\ ev.target = "hamburger"
    /\ ev.wasOpen /\ ~nav.sideOpen /\ ev.closes = 1

\* The values the idempotence claim names.
NavView(n) ==
    <<n.sideOpen, n.hamOpen, n.ovShow, n.ovHidden, n.ariaExpanded, n.ariaHidden>>

\* The panel state once every pending overlay-hide timer has fired.
AfterTimers(n) ==
    [n EXCEPT !.ovHidden = IF n.timers > 0 THEN TRUE ELSE @, !.timers = 0]

\* C2: from every reachable state, openSide called twice leaves the same
\* panel class, hamburger class, overlay class, overlay.hidden,
\* aria-expanded and aria-hidden as openSide called once, with the panel
\* open; closeSide called twice leaves the same values as closeSide called
\* once, also after the timers have fired, with the panel closed.
C2_Idempotent ==
    Loaded =>
      \A ok1 \in BOOLEAN, ok2 \in BOOLEAN :
        LET o1 == openSide(nav, cfg, boot.overlayRef, 0).nav
            o2 == openSide(o1, cfg, boot.overlayRef, 0).nav
            c1 == closeSide(nav, cfg, boot.overlayRef, 0, ok1).nav
            c2 == closeSide(c1, cfg, boot.overlayRef, 0, ok2).nav
        IN /\ NavView(o2) = NavView(o1)
           /\ cfg.sideNav => (o1.sideOpen /\ o2.sideOpen)
           /\ NavView(c2) = NavView(c1)
           /\ NavView(AfterTimers(c2)) = NavView(AfterTimers(c1))
           /\ cfg.sideNav => (~c1.sideOpen /\ ~c2.sideOpen)

\* closeSide has run on a panel an earlier closeSide had already closed:
\* two overlay-hide timers are pending.
C2_Witness ==
    /\ ev.kind = "click" /\ ev.target = "sideClose"
    /\ ~ev.wasOpen /\ ev.closes = 1 /\ ~ev.logged
    /\ nav.timers = 2 /\ ~nav.sideOpen

\* The event just dispatched took the panel from open to closed.
JustClosed == UiEvent /\ ev.wasOpen /\ ~nav.sideOpen

\* C3: whenever an event takes the panel from open to closed, closeSide
\* calls focus() on the element that had focus just before the panel was
\* opened (focus is on it when the call takes effect) and the recorded
\* reference is null afterwards whether or not the call took effect; the
\* reference is non-null only while the panel is open.
C3_FocusRestore ==
    /\ JustClosed =>
         /\ ev.preFocus # Null
         /\ nav.focusCall = ev.preFocus
         /\ ev.focusOk => nav.active = ev.preFocus
         /\ nav.lastFocused = Null
    /\ nav.lastFocused # Null => nav.sideOpen

\* Escape closed a panel opened from the hamburger: focus was on the
\* first link and is back on the hamburger.
C3_Witness ==
    /\ ev.kind = "key" /\ ev.target = "Escape" /\ JustClosed
    /\ ev.preFocus = "hamburger" /\ nav.active = "hamburger"
    /\ cfg.firstLink /\ nav.lastFocused = Null

\* The mode initialisation applied, from what it read.
BootMode == ResolveTheme(ev.saved, ev.os, ev.readFail)

\* Values setTheme may be handed.
Modes == StoredValues \ {Null}

\* C4: after setTheme(mode), for any mode, the body carries 'light' and
\* not 'dark' iff mode is exactly "light", otherwise 'dark' and not
\* 'light'; in every state after initialisation, whatever the clicks on
\* the theme toggle, the body carries exactly one of the two markers.
C4_ExclusiveMarkers ==
    /\ Loaded => (th.light # th.dark)
    /\ ev.kind = "load" => (th.light <=> BootMode = "light")
    /\ \A m \in Modes, w \in BOOLEAN :
         LET r == setTheme(m, th, storage, cfg, w).th
         IN /\ r.light <=> m = "light"
            /\ r.dark <=> m # "light"

\* The body came with both markers, initialisation applied a stored value
\* that is neither mode, and the toggle has been clicked twice since.
C4_Witness ==
    /\ ev.kind = "click" /\ ev.target = "themeToggle"
    /\ hist.parity = 0 /\ hist.initMode = "dark"
    /\ th.dark /\ ~th.light

\* C5 as stated, on a complete page: when a persisted value exists
\* (reading did not throw and returned a string) initialisation applies it
\* whatever the OS says, "light" giving light and anything else dark;
\* otherwise it applies the OS preference, light giving light and anything
\* else dark.
C5_AnyPersisted ==
    (ev.kind = "load" /\ AllRequired) =>
      LET exists == ~ev.readFail /\ ev.saved # Null IN
      CurrentMode(th) =
        IF exists THEN (IF ev.saved = "light" THEN "light" ELSE "dark")
        ELSE (IF ev.os = "light" THEN "light" ELSE "dark")

\* C5 amended: a persisted value that is not the empty string is applied
\* whatever the OS says; when nothing is persisted, the persisted value is
\* the empty string, or reading throws, the OS preference is applied.
C5_NonEmptyPersisted ==
    ev.kind = "load" =>
      LET exists == ~ev.readFail /\ ev.saved \notin {Null, ""} IN
      CurrentMode(th) =
        IF exists THEN (IF ev.saved = "light" THEN "light" ELSE "dark")
        ELSE (IF ev.os = "light" THEN "light" ELSE "dark")

\* Persisted "dark" won over an OS preference for light.
C5_Witness ==
    /\ ev.kind = "load" /\ ~ev.readFail
    /\ ev.saved = "dark" /\ ev.os = "light"
    /\ th.dark /\ ~th.light

\* C6: on a page with a theme toggle, the mode shown is the initial one
\* iff the number of toggle clicks so far is even; the toggle's glyph and
\* title match the body's marker; a click on the toggle raises no fault
\* whether or not the write to storage fails, and when the write succeeds
\* storage holds the mode just applied.
C6_ToggleFlips ==
    (Loaded /\ cfg.themeToggle) =>
      /\ (CurrentMode(th) = hist.initMode) <=> (hist.parity = 0)
      /\ th.light => (th.glyph = "sun" /\ th.title = "Switch to dark")
      /\ ~th.light => (th.glyph = "moon" /\ th.title = "Switch to light")
      /\ (ev.kind = "click" /\ ev.target = "themeToggle") =>
           /\ ~ev.fault
           /\ ev.write \in {"ok", "failed"}
           /\ ev.write = "ok" => storage = CurrentMode(th)

\* A click flipped dark to light although the write failed and storage
\* still holds nothing.
C6_Witness ==
    /\ ev.kind = "click" /\ ev.target = "themeToggle"
    /\ ev.write = "failed" /\ storage = Null
    /\ hist.initMode = "dark" /\ hist.parity = 1
    /\ th.light /\ th.glyph = "sun"

\* C7: on a complete page whose storage works, in every state after
\* initialisation the stored value is "light" or "dark" and names the mode
\* the body shows.
C7_StoredMode ==
    (Loaded /\ AllRequired /\ ~cfg.flakyStorage) =>
      /\ storage \in {"light", "dark"}
      /\ storage = CurrentMode(th)

\* Exactly one of the four required elements is missing.
OneMissing ==
    Cardinality({e \in {"hamburger", "sideNav", "overlay", "themeToggle"} :
                   ~cfg[e]}) = 1

\* C8: when one required element is missing the warning is logged, the
\* script runs to its end, the smooth-scroll, reveal and resize handlers
\* are installed, and no event handler raises an uncaught fault.
C8_PartialRun ==
    (Loaded /\ OneMissing) =>
      /\ boot.warned
      /\ boot.phase = "done"
      /\ {"smoothScroll", "reveal", "resize"} \subseteq boot.installed
      /\ UiEvent => ~ev.fault

C10_AnchorClick ==
    (AllRequired /\ ev.kind = "click" /\ IsAnchor(ev.target)) =>
      /\ ev.href \in {"#", "#missing", "#1bad"} =>
           (~ev.scrolled /\ ~ev.prevented /\ ~ev.ssClose /\ ~ev.fault)
      /\ ev.href = "#target" =>
           (ev.prevented /\ ev.scrolled /\ ~nav.sideOpen)

\* The script ran to its end: every handler is set up.
Done == boot.phase = "done"

\* C11: for every element and every sequence of intersection
\* notifications, the element carries 'show' iff a notification has
\* reported it intersecting; the class went from absent to present at most
\* once; an element that carries it is no longer observed; every element
\* the setup matched carries 'reveal' from setup onward, and only such
\* elements are observed (and only where the observer exists).
C11_RevealOneShot ==
    \A e \in RevealEls :
      /\ rv[e].show <=> rv[e].seen
      /\ rv[e].adds = (IF rv[e].seen THEN 1 ELSE 0)
      /\ rv[e].show => ~rv[e].observed
      /\ (Done /\ e \in Matched(page.kinds)) => rv[e].reveal
      /\ rv[e].observed => (rv[e].reveal /\ e \in Matched(page.kinds) /\ page.io)
      /\ (Done /\ page.io /\ e \in Matched(page.kinds))
            => (rv[e].observed \/ rv[e].show)

\* A notification reported a tile intersecting: it carries 'reveal' and
\* 'show' and is no longer observed, while another element, never reported
\* intersecting, is still observed and not shown.
C11_Witness ==
    /\ ev.kind = "intersect"
    /\ rv["e2"].show /\ rv["e2"].adds = 1 /\ ~rv["e2"].observed
    /\ page.kinds["e2"] = "tile" /\ rv["e2"].reveal
    /\ rv["e1"].observed /\ ~rv["e1"].show /\ ~rv["e1"].seen

\* C12: on a page with a hero, every run of the adjuster leaves the
\* min-height override set iff the viewport is then lower than 500 (at
\* exactly 500 it is cleared); once a resize event has arrived and no
\* debounce timer is pending the override is set iff the viewport is lower
\* than 500; and a resize event not yet followed by a run is eventually
\* followed by one, so that when the events stop the override ends up
\* matching the final height.
C12_HeroOverride ==
    /\ [](page.hero /\ rz.runs > 0 => (rz.override <=> rz.height < 500))
    /\ [](page.hero /\ rz.resized /\ rz.pending = <<>>
            => (rz.override <=> rz.height < 500))
    /\ (rz.waiting # <<>>) ~> (rz.runs > 0 /\ rz.pending = <<>>)

\* The debounce timer ran the adjuster at a height of exactly 500 on a
\* page whose hero came with the override: it is cleared.
C12_Witness ==
    /\ ev.kind = "debounce" /\ rz.runs = 1 /\ page.hero
    /\ rz.height = 500 /\ ~rz.override /\ rz.pending = <<>>

\* C13: every debounce timer is armed with the quiet period of 120 ms,
\* and the wrapped function is executed no later than 300 ms after the
\* first resize event not yet followed by an execution.
C13_MaxWait ==
    /\ \A i \in 1 .. Len(rz.pending) : rz.pending[i] <= 120
    /\ rz.waiting # <<>> => rz.waiting[1] <= 300

\* C19: at most one debounce timer is pending at any time, and one is
\* pending while a resize event waits for its execution; the wrapped
\* function runs at most once per event or timer firing; less than
\* 120 + 300 ms pass between the first resize event since the previous
\* execution and the next one; every resize event is eventually followed
\* by an execution.
C19_Debounce ==
    /\ [](Len(rz.pending) <= 1)
    /\ [](rz.waiting # <<>> => Len(rz.pending) = 1)
    /\ [](rz.runs <= 1)
    /\ [](rz.waiting # <<>> => rz.waiting[1] < 120 + 300)
    /\ (rz.waiting # <<>>) ~> (rz.runs = 1)

\* A resize event arrived 300 ms or more after the first one still
\* waiting: it cleared the timer it had just armed and ran the function.
C19_Witness ==
    /\ ev.kind = "resize" /\ rz.runs = 1
    /\ rz.pending = <<>> /\ rz.waiting = <<>> /\ ~rz.tLive

\* C14: on a complete page, in every state in which the panel carries the
\* open marker the overlay carries 'show' and is not hidden, whatever the
\* interleaving of opens, closes and overlay-hide timers.
C14_OverlayWhileOpen ==
    (AllRequired /\ nav.sideOpen) => (nav.ovShow /\ ~nav.ovHidden)

\* C15 as stated, on a complete page: a dispatch that calls closeSide (and
\* no openSide) leaves the overlay without 'show'; overlay.hidden goes
\* from false to true only when an overlay-hide timer fires, and never
\* earlier than 220 ms after a closeSide call, whichever call it is: every
\* closeSide call of the last 220 ms still has its timer pending, so no
\* pending timer is younger than 220 ms; and after a closeSide call the
\* overlay is eventually hidden unless openSide is called.
C15_AnyCloseCall ==
    /\ [][(~nav.ovHidden /\ nav.ovHidden')
            => (ev'.kind = "timer" /\ \A i \in 1 .. Len(clk) : clk[i] >= 220)]_vars
    /\ []((UiEvent /\ ev.closes > 0 /\ ev.opens = 0) => ~nav.ovShow)
    /\ (UiEvent /\ ev.closes > 0) ~> (nav.ovHidden \/ ev.opens > 0)

\* C15 amended: the same, with the 220 ms counted from the closeSide call
\* that armed the timer which fires (the oldest one pending); a later
\* closeSide call does not put the hiding off.
C15_DelayedHide ==
    /\ [][(~nav.ovHidden /\ nav.ovHidden')
            => (clk # <<>> /\ Head(clk) >= 220 /\ ev'.kind = "timer")]_vars
    /\ []((UiEvent /\ ev.closes > 0 /\ ev.opens = 0) => ~nav.ovShow)
    /\ (UiEvent /\ ev.closes > 0) ~> (nav.ovHidden \/ ev.opens > 0)

\* The timer of a closeSide call has fired on a closed panel: the overlay,
\* visible until then, is hidden and no timer is left.
C15_Witness ==
    /\ ev.kind = "timer" /\ ~ev.wasHidden /\ nav.ovHidden
    /\ ~nav.sideOpen /\ ~nav.ovShow /\ clk = <<>>

\* C16: on a page with all required elements these four facts are all
\* true or all false in every state: the panel has class 'open', the
\* hamburger has class 'open', aria-expanded is "true", aria-hidden is
\* "false"; and once a dispatch has called openSide or closeSide both
\* attributes are set and say the same as the classes.
C16_FourFacts ==
    AllRequired =>
      /\ nav.hamOpen = nav.sideOpen
      /\ (nav.ariaExpanded = "true") = nav.sideOpen
      /\ (nav.ariaHidden = "false") = nav.sideOpen
      /\ (UiEvent /\ ev.opens + ev.closes > 0) =>
           /\ nav.ariaExpanded = (IF nav.sideOpen THEN "true" ELSE "false")
           /\ nav.ariaHidden = (IF nav.sideOpen THEN "false" ELSE "true")

\* Escape has closed an open panel: the four facts went from all true to
\* all false.
C16_Witness ==
    /\ AllRequired /\ ev.kind = "key" /\ ev.wasOpen /\ ev.closes = 1
    /\ ~nav.sideOpen /\ ~nav.hamOpen
    /\ nav.ariaExpanded = "false" /\ nav.ariaHidden = "true"

\* C17: the dispatch of one click through all its listeners calls openSide
\* or closeSide at most once in total and arms at most one overlay-hide
\* timer; a hamburger click that opens the panel leaves it open.
C17_SingleCall ==
    ev.kind = "click" =>
      /\ ev.opens + ev.closes <= 1
      /\ ev.timersAdded <= 1
      /\ ev.opens = 1 => (ev.target = "hamburger" /\ ev.closes = 0)
      /\ (ev.opens = 1 /\ cfg.sideNav) => nav.sideOpen

\* A click on a page link whose target exists, with the panel open: the
\* outside-click listener closed the panel, the smooth-scroll listener
\* scrolled and found nothing left to close.
C17_Witness ==
    /\ ev.kind = "click" /\ ev.target = "pageLink" /\ ev.href = "#target"
    /\ ev.wasOpen /\ ev.closes = 1 /\ ev.timersAdded = 1
    /\ ev.scrolled /\ ~ev.ssClose /\ ~nav.sideOpen

\* C18: after startup the document holds exactly one #page-overlay, the
\* script's reference names it (the markup's, or the one it created), the
\* click-to-close listener is attached to it and a click on it calls
\* closeSide; an overlay the script created is hidden and without 'show'
\* when startup ends.
C18_OneOverlay ==
    Loaded =>
      /\ boot.overlays = 1
      /\ boot.overlayRef = (IF cfg.overlay THEN "markup" ELSE "created")
      /\ "overlay" \in boot.installed
      /\ (ev.kind = "load" /\ ~cfg.overlay) => (nav.ovHidden /\ ~nav.ovShow)
      /\ (ev.kind = "click" /\ ev.target = "overlay") => ev.closes = 1

\* A page without an overlay in its markup: the script ran to its end and
\* created one, hidden.
C18_Witness ==
    /\ ev.kind = "load" /\ ~cfg.overlay /\ boot.phase = "done"
    /\ boot.overlays = 1 /\ boot.overlayRef = "created" /\ nav.ovHidden

\* The rule of the fallback detection, from the markup: no bar, or a first bar
\* narrower than 6 or lower than 2, or a measurement that throws.
Broken ==
    \/ ~cfg.hamburger
    \/ page.ham.bars = 0
    \/ page.ham.width < 6
    \/ page.ham.height < 2
    \/ page.ham.measureThrows

\* C20: hamburgerFallbackCheck decides 'broken' iff the rule says so; on a page with a
\* hamburger, when broken the button has class 'use-fallback', the glyph
\* (where there is one) is displayed and every bar hidden, when healthy
\* the class is absent, the glyph hidden and every bar displayed, so glyph
\* and bars are never both shown or both hidden; without the hamburger
\* nothing is touched; no fault leaves the function.
C20_Fallback ==
    Loaded =>
      /\ ev.kind = "load" =>
           /\ (ev.verdict \in {"broken", "thrown"}) <=> Broken
           /\ cfg.themeToggle => ~ev.fault
      /\ (cfg.hamburger /\ Broken) =>
           /\ hb.useFallback
           /\ page.ham.fb => hb.glyph = "block"
           /\ page.ham.bars > 0 => hb.bars = "none"
      /\ (cfg.hamburger /\ ~Broken) =>
           /\ ~hb.useFallback
           /\ page.ham.fb => hb.glyph = "none"
           /\ hb.bars = "block"
      /\ (cfg.hamburger /\ page.ham.fb /\ page.ham.bars > 0) =>
           (hb.glyph = "block") # (hb.bars = "block")
      /\ ~cfg.hamburger => hb = HamInit(page.ham)

\* Measuring the first of three bars threw: the catch branch showed the
\* glyph, hid the bars and set the class.
C20_Witness ==
    /\ ev.kind = "load" /\ ev.verdict = "thrown" /\ page.ham.bars = 3
    /\ hb.useFallback /\ hb.glyph = "block" /\ hb.bars = "none"

=============================================================================
